---- MODULE Spec2Model ----
(***************************************************************************)
(* Model of script.js: the canvas particle field, its requestAnimationFrame *)
(* render loop, the transient light bursts and the event handlers that      *)
(* drive them.                                                              *)
(*                                                                          *)
(* Reals are fixed-point integers with Scale units per 1.0.  Math.random()  *)
(* is a value k/RandDen; the draws one handler invocation makes are read,   *)
(* in program order, from one of NumSeeds random tapes.                     *)
(***************************************************************************)
EXTENDS Integers, Sequences, FiniteSets, TLC

VARIABLES
    W, H,             \* let W / let H: the canvas size
    PARTICLE_COUNT,   \* const PARTICLE_COUNT, computed once when the script loads
    prefersReduced,   \* const prefersReduced, read once when the script loads
    palette,          \* const palette: array of colours, mutated in place
    particles,        \* let particles: the contents of the live array
    particlesRef,     \* identity of the array the variable particles refers to
    exposedRef,       \* identity of the array held by window._TecladoHielo.particles
    frames,           \* render() executions since the pool was last (re)created
    rafId,            \* let rafId: handle of the loop's frame request, Null when absent
    rafQueue,         \* the host's pending animation-frame callbacks
    bursts,           \* closures of burstLight: one record per burst
    checked,          \* motionToggle.checked
    hidden,           \* document.hidden
    surface           \* what has been painted on the canvas since it was last cleared

vars == <<W, H, PARTICLE_COUNT, prefersReduced, palette, particles, particlesRef,
          exposedRef, frames, rafId, rafQueue, bursts, checked, hidden, surface>>

-----------------------------------------------------------------------------
(* Bounds of the model *)

RandDen == 16
NumSeeds == 2
MaxBursts == 2
MaxLoopFrames == 2
MaxFlightFrames == 94

Scale == 10 ^ 4

Seeds == 0 .. (NumSeeds - 1)
LoopSeeds == {0}

\* viewport sizes <<innerWidth, innerHeight>> the host may report
Dims == {<<700, 72>>, <<1500, 1000>>}
LoopDims == {<<700, 72>>}

\* the .key elements and the rectangle getBoundingClientRect() reports for each
Keys == {"k1", "k2"}
LoopKeys == {"k1"}

\* the burst closures that may be alive at once
Slots == 1 .. MaxBursts
LoopSlots == {1}
ChainSlots == {1, 2}
Rect(el) ==
    IF el = "k1" THEN [left |-> 100, top |-> 200, width |-> 60, height |-> 50]
                 ELSE [left |-> 170, top |-> 200, width |-> 90, height |-> 50]

KeyNames == {"Enter", " ", "a"}

-----------------------------------------------------------------------------
(* Program constants *)

AREA_PER_PARTICLE == 70000
MIN_PARTICLES == 20
Y_MARGIN == 20
DURATION == 420
FRAME_STEP == 16
DRAWS_PER_RESET == 9
DRAWS_PER_COLOR == 4

Null == 0

InitialPalette ==
    << <<127, 227, 255, (9 * Scale) \div 10>>,
       <<123, 216, 255, (85 * Scale) \div 100>>,
       <<190, 245, 255, (6 * Scale) \div 10>>,
       <<170, 230, 255, (5 * Scale) \div 10>> >>

-----------------------------------------------------------------------------
(* Helpers *)

Max(a, b) == IF a >= b THEN a ELSE b

\* Math.round(a / b) for a >= 0, b > 0
Round(a, b) == (2 * a + b) \div (2 * b)

\* numerator of the n-th Math.random() value of the tape chosen by seed
Random(seed, n) == (5 * seed + 3 * n + (n \div RandDen)) % RandDen

\* Math.sin(life * 0.01) in thousandths, life * 0.01 in [0, pi)
Sin(life) ==
    LET a  == life * 10
        a2 == (a * a) \div 1000
        t3 == (a * a2) \div 6000
        t5 == (t3 * a2) \div 20000
        t7 == (t5 * a2) \div 42000
        t9 == (t7 * a2) \div 72000
        t11 == (t9 * a2) \div 110000
    IN  a - t3 + t5 - t7 + t9 - t11

-----------------------------------------------------------------------------
(* class Particle *)

\* variant: the colour is picked from the palette the script started with
PickColorInitial(seed, n, pal) ==
    InitialPalette[(Random(seed, n) * Len(InitialPalette)) \div RandDen + 1]

\* line 38: palette[Math.floor(Math.random() * palette.length)], the n-th draw
PickColor(seed, n, pal) == pal[(Random(seed, n) * Len(pal)) \div RandDen + 1]

\* reset(): every field is assigned anew from the next nine Math.random() values
Reset(seed, n, w, h, pal) ==
    [x     |-> (Random(seed, n) * w * Scale) \div RandDen,
     y     |-> 0 - ((Random(seed, n + 1) * h * Scale) \div (2 * RandDen)),
     vy    |-> (2 * Scale) \div 10 + (Random(seed, n + 2) * 12 * Scale) \div (10 * RandDen),
     vx    |-> ((2 * Random(seed, n + 3) - RandDen) * 6 * Scale) \div (20 * RandDen),
     size  |-> Scale + (Random(seed, n + 4) * 4 * Scale) \div RandDen,
     life  |-> 0,
     ttl   |-> 80 * Scale + (Random(seed, n + 5) * 220 * Scale) \div RandDen,
     color |-> PickColor(seed, n + 6, pal),
     alpha |-> (8 * Scale) \div 100 + (Random(seed, n + 7) * 9 * Scale) \div (10 * RandDen),
     spin  |-> (Random(seed, n + 8) * 6 * Scale) \div (100 * RandDen) - (3 * Scale) \div 100]

\* update(), lines 43-46: move, perturb vx, age
Move(p) ==
    [p EXCEPT !.x = p.x + p.vx,
              !.y = p.y + p.vy,
              !.vx = p.vx + (Sin(p.life) * 2 * Scale) \div (1000 * 1000),
              !.life = p.life + 1]

\* variant: the age test lets one more update pass
NeedsResetLate(q, h) ==
    \/ q.y > (h + Y_MARGIN) * Scale
    \/ q.life * Scale > q.ttl + Scale

\* variant: the lower bound is not tested
NeedsResetAgeOnly(q, h) == q.life * Scale > q.ttl

\* variant: both conditions are required
NeedsResetBoth(q, h) ==
    /\ q.y > (h + Y_MARGIN) * Scale
    /\ q.life * Scale > q.ttl

\* update(), line 47: the reset condition, on the moved and aged particle
NeedsReset(q, h) ==
    \/ q.y > (h + Y_MARGIN) * Scale
    \/ q.life * Scale > q.ttl

\* the loop of render(), lines 99-102, over the pool: update() each particle in
\* order.  n is the number of Math.random() values the handler has used before
\* the loop; each reset() in the loop uses the next DRAWS_PER_RESET values.
UpdateAll(ps, seed, n, w, h, pal) ==
    LET moved == [i \in DOMAIN ps |-> Move(ps[i])]
        hit   == {i \in DOMAIN ps : NeedsReset(moved[i], h)}
    IN  [i \in DOMAIN ps |->
            IF i \in hit
            THEN Reset(seed, n + DRAWS_PER_RESET * Cardinality({j \in hit : j < i}),
                       w, h, pal)
            ELSE moved[i]]

\* the loop bound of initParticles(), line 74; w, h are the current W, H
PoolSize(count, w, h) == Max(MIN_PARTICLES, count)

\* initParticles(): a new array of PoolSize freshly constructed particles
NewPool(seed, count, w, h, pal) ==
    [i \in 1 .. PoolSize(count, w, h) |->
        Reset(seed, (i - 1) * DRAWS_PER_RESET, w, h, pal)]

\* identity of the array allocated by particles = []: an identity no live
\* reference holds (the array being replaced is garbage unless it is exposed)
NewRef(old, exposed) == IF exposed = 1 THEN 2 ELSE 1

-----------------------------------------------------------------------------
(* the host's animation-frame queue *)

Handles(q) == {r.h : r \in q}

\* requestAnimationFrame returns a handle no pending request holds. The page
\* keeps the handle of render's request only (rafId) and drops the one of a
\* burst's request, so the numbering is the host's: here the least free odd
\* number for render, and twice its slot for a burst closure, which has at
\* most one request pending.
FreshHandle(q, cb) ==
    IF cb.kind = "frame"
    THEN 2 * cb.slot
    ELSE LET odd == {2 * k - 1 : k \in 1 .. (Cardinality(q) + 1)}
         IN  CHOOSE h \in odd \ Handles(q) : \A g \in odd \ Handles(q) : h <= g

\* requestAnimationFrame(cb): cb names the callback, RenderCb or FrameCb(slot)
Request(q, cb) == q \cup {[h |-> FreshHandle(q, cb), kind |-> cb.kind, slot |-> cb.slot]}

RenderCb == [kind |-> "render", slot |-> 0]
FrameCb(s) == [kind |-> "frame", slot |-> s]

\* variant: the request stays queued
CancelNone(q, h) == q

\* variant: every pending request is dropped
CancelEvery(q, h) == {}

\* cancelAnimationFrame(h): the request with handle h, if any, is dropped
Cancel(q, h) == {r \in q : r.h # h}

RenderRequests == {r \in rafQueue : r.kind = "render"}
BurstRequests == {r \in rafQueue : r.kind = "frame"}

-----------------------------------------------------------------------------
(* colours *)

\* the template string of line 184, from the draws n .. n+3 (the first is shift)
RandomColor(seed, n) ==
    <<120 + (Random(seed, n + 1) * 120) \div RandDen,
      180 + (Random(seed, n + 2) * 70) \div RandDen,
      255,
      (6 * Scale) \div 10 + (Random(seed, n + 3) * 35 * Scale) \div (100 * RandDen)>>

\* the loop of the randomizeBtn click handler, lines 182-185
RandomizedPalette(seed, pal) ==
    [i \in 1 .. Len(pal) |-> RandomColor(seed, (i - 1) * DRAWS_PER_COLOR)]

-----------------------------------------------------------------------------
(* bursts *)

\* the closure burstLight(el) creates: cx, cy, r from the element's rectangle, t = 0
NewBurst(el) ==
    LET rect == Rect(el)
    IN  [cx |-> rect.left * Scale + (rect.width * Scale) \div 2,
         cy |-> rect.top * Scale + (rect.height * Scale) \div 2,
         r  |-> (Max(rect.width, rect.height) * 16 * Scale) \div 10,
         t  |-> 0]

\* slots whose closure has a frame callback pending
LiveSlots == {r.slot : r \in BurstRequests}

\* a burst whose callback is no longer pending is garbage: its slot can be reused
FreeSlots(slots) == slots \ LiveSlots

\* 0.35 * (1 - progress), in Scale units, for elapsed time t
BurstAlpha(t) == (35 * (DURATION - t) * Scale) \div (100 * DURATION)

\* variant: the last frame is dropped
BurstContinuesShort(t) == t + FRAME_STEP < DURATION

\* line 143: whether frame() requests another frame
BurstContinues(t) == t < DURATION

-----------------------------------------------------------------------------
(* the canvas and the loop's guards *)

\* variant: nothing is cleared
ClearRectKeeps(s) == s

\* ctx.clearRect(0, 0, W, H) on a canvas of size W x H: nothing stays painted
ClearRect(s) == {}

\* variant: the reduced-motion recheck is missing
ReschedulesAlways(reduced) == TRUE

\* line 103: render() requests the next frame unless reduced motion is preferred
Reschedules(reduced) == ~reduced

\* variant: the loop is taken to be running
LoopIdleNever(id) == FALSE

\* variant: the handle is not consulted
LoopIdleAlways(id) == TRUE

\* !rafId, lines 176 and 216: no frame request of the loop is held
LoopIdle(id) == id = Null

\* variant: every key activates
ActivationKeyAny(key) == TRUE

\* line 155: the keys that activate a key element
ActivationKey(key) == key = "Enter" \/ key = " "

-----------------------------------------------------------------------------
(* render() and initParticles() as state changes *)

\* render(): clear, overlay, update and draw every particle, then request the
\* next frame unless reduced motion is preferred; q is the queue render() finds
Render(q, seed) ==
    /\ particles' = UpdateAll(particles, seed, 0, W, H, palette)
    /\ surface' = ClearRect(surface) \cup {"overlay", "particles"}
    /\ frames' = frames + 1
    /\ IF Reschedules(prefersReduced)
       THEN /\ rafId' = FreshHandle(q, RenderCb)
            /\ rafQueue' = Request(q, RenderCb)
       ELSE /\ rafId' = rafId
            /\ rafQueue' = q

\* initParticles() with the canvas size w, h
InitParticles(seed, w, h) ==
    /\ particles' = NewPool(seed, PARTICLE_COUNT, w, h, palette)
    /\ particlesRef' = NewRef(particlesRef, exposedRef)
    /\ frames' = 0

-----------------------------------------------------------------------------
(* The state after the script has run: start() has called resize() and, unless *)
(* reduced motion is preferred, render() once; then the API object is exposed. *)

InitWith(dims, seeds) ==
    \E d \in dims, seed \in seeds :
        /\ W = d[1]
        /\ H = d[2]
        /\ PARTICLE_COUNT = Round(d[1] * d[2], AREA_PER_PARTICLE)
        /\ prefersReduced \in BOOLEAN
        /\ palette = InitialPalette
        /\ particlesRef = 1
        /\ exposedRef = 1
        /\ bursts = <<>>
        /\ checked \in BOOLEAN
        /\ hidden \in BOOLEAN
        /\ LET pool == NewPool(seed, PARTICLE_COUNT, d[1], d[2], InitialPalette)
           IN  IF ~prefersReduced
               THEN /\ particles = UpdateAll(pool, seed, Len(pool) * DRAWS_PER_RESET,
                                             d[1], d[2], InitialPalette)
                    /\ surface = {"overlay", "particles"}
                    /\ frames = 1
                    /\ rafId = 1
                    /\ rafQueue = {[h |-> 1, kind |-> "render", slot |-> 0]}
               ELSE /\ particles = pool
                    /\ surface = {}
                    /\ frames = 0
                    /\ rafId = Null
                    /\ rafQueue = {}

Init == InitWith(LoopDims, LoopSeeds)

-----------------------------------------------------------------------------
(* Event handlers and frame callbacks.  cap bounds the render() executions on *)
(* one pool, slots the burst closures that may be alive at once.              *)

\* the host runs the loop's pending frame callback: render()
Tick(cap, seed) ==
    \E req \in RenderRequests :
        /\ frames < cap
        /\ Render(rafQueue \ {req}, seed)
        /\ UNCHANGED <<W, H, PARTICLE_COUNT, prefersReduced, palette, particlesRef,
                       exposedRef, bursts, checked, hidden>>

\* variant: the resize also stops the loop
ResizeStops(d, seed) ==
    /\ W' = d[1]
    /\ H' = d[2]
    /\ surface' = {}
    /\ InitParticles(seed, d[1], d[2])
    /\ rafQueue' = Cancel(rafQueue, rafId)
    /\ rafId' = Null
    /\ UNCHANGED <<PARTICLE_COUNT, prefersReduced, palette, exposedRef, bursts,
                   checked, hidden>>

\* window 'resize': resize(); assigning canvas.width / canvas.height resets the bitmap
Resize(d, seed) ==
    /\ W' = d[1]
    /\ H' = d[2]
    /\ surface' = {}
    /\ InitParticles(seed, d[1], d[2])
    /\ UNCHANGED <<PARTICLE_COUNT, prefersReduced, palette, exposedRef, rafId,
                   rafQueue, bursts, checked, hidden>>

\* window._TecladoHielo.initParticles() called from outside
ApiInitParticles(seed) ==
    /\ InitParticles(seed, W, H)
    /\ UNCHANGED <<W, H, PARTICLE_COUNT, prefersReduced, palette, exposedRef, rafId,
                   rafQueue, bursts, checked, hidden, surface>>

\* motionToggle 'change': the checkbox flips, then the handler runs
ToggleChange(cap, seed) ==
    /\ checked' = ~checked
    /\ IF ~checked'
       THEN /\ rafQueue' = Cancel(rafQueue, rafId)
            /\ rafId' = Null
            /\ surface' = ClearRect(surface)
            /\ UNCHANGED <<particles, frames>>
       ELSE IF LoopIdle(rafId)
            THEN /\ frames < cap
                 /\ Render(rafQueue, seed)
            ELSE UNCHANGED <<particles, frames, rafId, rafQueue, surface>>
    /\ UNCHANGED <<W, H, PARTICLE_COUNT, prefersReduced, palette, particlesRef,
                   exposedRef, bursts, hidden>>

\* document 'visibilitychange': document.hidden flips, then the handler runs
VisibilityChange(cap, seed) ==
    /\ hidden' = ~hidden
    /\ IF hidden'
       THEN /\ rafQueue' = Cancel(rafQueue, rafId)
            /\ rafId' = Null
            /\ UNCHANGED <<particles, frames, surface>>
       ELSE IF LoopIdle(rafId) /\ checked /\ ~prefersReduced
            THEN /\ frames < cap
                 /\ Render(rafQueue, seed)
            ELSE UNCHANGED <<particles, frames, rafId, rafQueue, surface>>
    /\ UNCHANGED <<W, H, PARTICLE_COUNT, prefersReduced, palette, particlesRef,
                   exposedRef, bursts, checked>>

\* randomizeBtn 'click'
Randomize(seed) ==
    /\ palette' = RandomizedPalette(seed, palette)
    /\ UNCHANGED <<W, H, PARTICLE_COUNT, prefersReduced, particles, particlesRef,
                   exposedRef, frames, rafId, rafQueue, bursts, checked, hidden, surface>>

\* burstLight(el): a new closure and its first frame request
BurstLight(slots, el) ==
    /\ FreeSlots(slots) # {}
    /\ LET slot == CHOOSE s \in FreeSlots(slots) : \A u \in FreeSlots(slots) : s <= u
       IN  /\ bursts' = [i \in 1 .. Max(Len(bursts), slot) |->
                            IF i = slot THEN NewBurst(el) ELSE bursts[i]]
           /\ rafQueue' = Request(rafQueue, FrameCb(slot))
    /\ UNCHANGED <<W, H, PARTICLE_COUNT, prefersReduced, palette, particles,
                   particlesRef, exposedRef, frames, rafId, checked, hidden, surface>>

\* keyPulse(el): the element's animation is not canvas state; then burstLight(el)
KeyPulse(slots, el) == BurstLight(slots, el)

\* 'pointerdown' on a key
PointerDown(slots, el) == KeyPulse(slots, el)

\* 'keydown' on a key
KeyDown(slots, el, key) ==
    IF ActivationKey(key)
    THEN KeyPulse(slots, el)
    ELSE UNCHANGED vars

\* the host runs a burst's pending frame callback: frame()
BurstTick ==
    \E req \in BurstRequests :
        LET t == bursts[req.slot].t + FRAME_STEP
            q == rafQueue \ {req}
        IN  /\ bursts' = [bursts EXCEPT ![req.slot].t = t]
            /\ surface' = IF BurstAlpha(t) > 0 THEN surface \cup {"burst"} ELSE surface
            /\ rafQueue' = IF BurstContinues(t) THEN Request(q, FrameCb(req.slot)) ELSE q
            /\ UNCHANGED <<W, H, PARTICLE_COUNT, prefersReduced, palette, particles,
                           particlesRef, exposedRef, frames, rafId, checked, hidden>>

-----------------------------------------------------------------------------
(* Specifications *)

\* the whole page: every handler and callback, on one viewport size, with one
\* random tape, one key and one burst at a time
Next ==
    \/ \E seed \in LoopSeeds : Tick(MaxLoopFrames, seed)
    \/ \E d \in LoopDims, seed \in LoopSeeds : Resize(d, seed)
    \/ \E seed \in LoopSeeds : ApiInitParticles(seed)
    \/ \E seed \in LoopSeeds : ToggleChange(MaxLoopFrames, seed)
    \/ \E seed \in LoopSeeds : VisibilityChange(MaxLoopFrames, seed)
    \/ \E seed \in LoopSeeds : Randomize(seed)
    \/ \E el \in LoopKeys : PointerDown(LoopSlots, el)
    \/ \E el \in LoopKeys, key \in KeyNames : KeyDown(LoopSlots, el, key)
    \/ BurstTick

Spec == Init /\ [][Next]_vars

\* the particle field in flight: long runs of the loop, palette changes
FlightInit == InitWith(Dims, Seeds) /\ ~prefersReduced /\ checked /\ ~hidden

FlightNext ==
    \/ \E seed \in Seeds : Tick(MaxFlightFrames, seed)
    \/ \E seed \in Seeds : Randomize(seed)

FlightSpec == FlightInit /\ [][FlightNext]_vars

\* the particle field (re)created: resizes between the viewport sizes, calls of
\* the exposed initParticles, palette changes, short runs of the loop
ResizeInit == InitWith(Dims, Seeds) /\ ~prefersReduced /\ checked /\ ~hidden

ResizeNext ==
    \/ \E d \in Dims, seed \in Seeds : Resize(d, seed)
    \/ \E seed \in Seeds : ApiInitParticles(seed)
    \/ \E seed \in Seeds : Randomize(seed)
    \/ \E seed \in Seeds : Tick(MaxLoopFrames, seed)

ResizeSpec == ResizeInit /\ [][ResizeNext]_vars

\* the particle field over long flights and resizes: the loop's ticks on pools
\* created at load, by resizes between the viewport sizes (growing and
\* shrinking) and by the exposed initParticles
FieldInit == InitWith(Dims, Seeds) /\ ~prefersReduced /\ checked /\ ~hidden

FieldNext ==
    \/ \E seed \in Seeds : Tick(MaxFlightFrames, seed)
    \/ \E d \in Dims, seed \in Seeds : Resize(d, seed)
    \/ \E seed \in Seeds : ApiInitParticles(seed)

FieldSpec == FieldInit /\ [][FieldNext]_vars

\* the bursts alone: activations of every key and the bursts' frame callbacks
BurstInit == InitWith(LoopDims, LoopSeeds) /\ prefersReduced /\ checked /\ ~hidden

BurstNext ==
    \/ \E el \in Keys : PointerDown(Slots, el)
    \/ \E el \in Keys, key \in KeyNames : KeyDown(Slots, el, key)
    \/ BurstTick

BurstSpec == BurstInit /\ [][BurstNext]_vars

\* the frame callback of the burst closure in slot s
BurstTickOf(s) ==
    /\ s \in LiveSlots
    /\ BurstTick
    /\ bursts'[s].t = bursts[s].t + FRAME_STEP

\* bursts beside the loop: activations of one key with several closures alive,
\* the loop's ticks, stops and starts, resizes; the host runs every pending
\* frame callback at its next frame, so no burst's callback waits forever
ChainInit == InitWith(LoopDims, LoopSeeds) /\ ~prefersReduced /\ checked /\ ~hidden

ChainNext ==
    \/ \E seed \in LoopSeeds : Tick(MaxLoopFrames, seed)
    \/ \E d \in LoopDims, seed \in LoopSeeds : Resize(d, seed)
    \/ \E seed \in LoopSeeds : ToggleChange(MaxLoopFrames, seed)
    \/ \E seed \in LoopSeeds : VisibilityChange(MaxLoopFrames, seed)
    \/ \E el \in LoopKeys : PointerDown(ChainSlots, el)
    \/ BurstTick

ChainSpec ==
    /\ ChainInit
    /\ [][ChainNext]_vars
    /\ \A s \in ChainSlots : WF_vars(BurstTickOf(s))

-----------------------------------------------------------------------------
(* Properties *)

Range(f) == {f[i] : i \in DOMAIN f}

\* C1: after every (re)initialization, also one triggered by a resize to (w, h),
\* the pool holds exactly max(20, round(w * h / 70000)) particles for the
\* surface size w, h of that initialization.
C1_PoolScalesWithSurface ==
    Len(particles) = Max(20, Round(W * H, 70000))

\* C2: at most one frame request of the render loop is outstanding in every
\* reachable state, and a start (toggle checked, tab visible) issued while the
\* loop holds a frame request schedules nothing further.
C2_AtMostOneFrameRequest ==
    /\ [](Cardinality(RenderRequests) <= 1)
    /\ [][(rafId # Null /\ ((~checked /\ checked') \/ (hidden /\ ~hidden')))
            => rafQueue' = rafQueue]_vars

C2_Witness ==
    /\ ~prefersReduced /\ checked /\ ~hidden
    /\ rafId # Null
    /\ Cardinality(RenderRequests) = 1
    /\ BurstRequests # {}
    /\ frames >= 2

\* C3: under the reduced-motion preference the loop never holds a frame handle
\* and no frame request of the loop is ever pending.
C3_ReducedMotionNeverSchedules ==
    prefersReduced => (rafId = Null /\ RenderRequests = {})

\* a frame rendered under reduced motion (the toggle was checked) with no request left
C3_Witness ==
    /\ prefersReduced /\ checked
    /\ "particles" \in surface
    /\ rafId = Null /\ RenderRequests = {}

\* C4 as stated: every stop of the loop, by the toggle being unchecked or by
\* the tab becoming hidden, leaves the surface fully cleared right after it.
C4_EveryStopClears ==
    [][((checked /\ ~checked') \/ (~hidden /\ hidden'))
         => (rafId' = Null /\ RenderRequests' = {} /\ surface' = {})]_vars

\* C4 as amended: unchecking the toggle stops the loop and leaves the surface
\* fully cleared; the tab becoming hidden stops the loop and leaves the surface
\* as it was.
C4_StopClearsOnToggleOnly ==
    [][/\ (checked /\ ~checked')
            => (rafId' = Null /\ RenderRequests' = {} /\ surface' = {})
       /\ (~hidden /\ hidden')
            => (rafId' = Null /\ RenderRequests' = {} /\ surface' = surface)]_vars

\* the loop was stopped by hiding the tab and its last frame is still painted
C4_Witness ==
    /\ ~prefersReduced /\ hidden /\ checked
    /\ rafId = Null /\ RenderRequests = {}
    /\ "particles" \in surface

\* C5: every burst executes exactly ceil(420 / 16) = 27 ticks, its elapsed time
\* grows by 16 with every tick, and after the 27th tick it requests no frame.
C5_BurstRunsExactly27Ticks ==
    /\ [](\A s \in DOMAIN bursts :
            /\ bursts[s].t % 16 = 0
            /\ s \in LiveSlots => bursts[s].t \div 16 < (420 + 15) \div 16
            /\ s \notin LiveSlots => bursts[s].t \div 16 = (420 + 15) \div 16)
    /\ [][\A s \in DOMAIN bursts :
            bursts'[s].t # bursts[s].t
                => \/ bursts'[s].t = bursts[s].t + 16
                   \/ (s \notin LiveSlots /\ bursts'[s].t = 0)]_vars
    /\ [](\A s \in LiveSlots :
            Cardinality({r \in BurstRequests : r.slot = s}) = 1)

\* a burst that has finished: 27 ticks done and no frame requested
C5_Witness ==
    \E s \in DOMAIN bursts : s \notin LiveSlots /\ bursts[s].t = 27 * 16

\* C9: the pool exposed on window._TecladoHielo is the live pool, the array
\* the render loop updates and draws, after any sequence of operations.
C9_ExposedPoolIsLive ==
    exposedRef = particlesRef

\* the burst a single activation of el adds: one new closure at the centre of
\* el, elapsed time 0, one frame request for it, every other burst untouched
SpawnsOneBurst(el) ==
    \E s \in DOMAIN bursts' :
        /\ s \notin LiveSlots
        /\ bursts'[s].cx = Rect(el).left * Scale + (Rect(el).width * Scale) \div 2
        /\ bursts'[s].cy = Rect(el).top * Scale + (Rect(el).height * Scale) \div 2
        /\ bursts'[s].t = 0
        /\ \A u \in DOMAIN bursts : u # s => bursts'[u] = bursts[u]
        /\ DOMAIN bursts \subseteq DOMAIN bursts'
        /\ Cardinality(DOMAIN bursts') <= Cardinality(DOMAIN bursts) + 1
        /\ \E r \in rafQueue' :
              /\ r \notin rafQueue
              /\ r.kind = "frame" /\ r.slot = s
              /\ rafQueue' = rafQueue \cup {r}

\* C10: a pointer-down on a key and a key-down of Enter or Space on it have the
\* same effect, exactly one burst spawned for that key; a key-down of any other
\* key spawns no burst.
C10_PointerAndKeyboardAgree ==
    [][\A el \in Keys :
          /\ PointerDown(Slots, el) => SpawnsOneBurst(el)
          /\ KeyDown(Slots, el, "Enter") <=> PointerDown(Slots, el)
          /\ KeyDown(Slots, el, " ") <=> PointerDown(Slots, el)
          /\ \A key \in KeyNames \ {"Enter", " "} :
                KeyDown(Slots, el, key) => UNCHANGED <<bursts, rafQueue>>]_vars

\* bursts of two different keys in flight at once
C10_Witness ==
    \E s, u \in LiveSlots : bursts[s].cx # bursts[u].cx

\* C6: randomizing the palette leaves every existing particle's colour as it
\* was; a particle's colour changes only when that particle is reset, and a
\* reset takes the colour from the palette as it stands at that time.
C6_PaletteAffectsFutureResetsOnly ==
    [][/\ palette' # palette => particles' = particles
       /\ \A i \in DOMAIN particles' :
            (i \notin DOMAIN particles \/ particles'[i] # particles[i])
                => \/ /\ particles'[i].life = 0
                      /\ particles'[i].color \in Range(palette')
                   \/ /\ i \in DOMAIN particles
                      /\ particles'[i].life = particles[i].life + 1
                      /\ particles'[i].color = particles[i].color]_vars

\* after a palette change, in one flight of the pool: a particle that still has
\* a colour the palette no longer holds, beside one reset to a new colour
C6_Witness ==
    /\ palette # InitialPalette
    /\ frames > 0
    /\ \E i \in DOMAIN particles : particles[i].color \notin Range(palette)
    /\ \E j \in DOMAIN particles :
          /\ particles[j].color \in Range(palette) \ Range(InitialPalette)
          /\ particles[j].life < frames

\* a particle as reset() leaves it, on a surface w x h with palette pal
FreshlyReset(p, w, h, pal) ==
    /\ p.life = 0
    /\ 80 * Scale <= p.ttl /\ p.ttl < 300 * Scale
    /\ p.color \in Range(pal)
    /\ (8 * Scale) \div 100 <= p.alpha /\ p.alpha < (98 * Scale) \div 100
    /\ 0 - (3 * Scale) \div 100 <= p.spin /\ p.spin < (3 * Scale) \div 100
    /\ 0 <= p.x /\ p.x < w * Scale
    /\ 0 - (h * Scale) \div 2 <= p.y /\ p.y <= 0

\* C7 as stated: once update() has run ttl-many times since the last reset
\* (the age has reached the whole part of ttl), the age exceeds ttl.
C7_AgeExceedsTtlAfterTtlUpdates ==
    \A i \in DOMAIN particles :
        particles[i].life = particles[i].ttl \div Scale
            => particles[i].life * Scale > particles[i].ttl

\* C7 as amended: once update() has run floor(ttl) times since the last reset
\* the age equals floor(ttl) and does not exceed ttl (no particle is ever seen
\* with age above ttl); the next update() resets the age to 0 and reassigns
\* ttl, colour, alpha, spin and position.
C7_ResetOnUpdateAfterTtl ==
    /\ [](\A i \in DOMAIN particles : particles[i].life * Scale <= particles[i].ttl)
    /\ [][frames' = frames + 1
            => \A i \in DOMAIN particles :
                  particles[i].life = particles[i].ttl \div Scale
                      => FreshlyReset(particles'[i], W, H, palette)]_vars

\* on the tall surface, where no particle can reach the lower bound within its
\* ttl, one particle has been reset in flight and another, never reset, has
\* been updated floor(ttl) times, its ttl not an integer
C7_Witness ==
    /\ (H + 20) * Scale > 300 * ((14 * Scale) \div 10)
    /\ \E i \in DOMAIN particles : particles[i].life < frames
    /\ \E j \in DOMAIN particles :
          /\ particles[j].life = frames
          /\ particles[j].life * Scale < particles[j].ttl
          /\ (particles[j].life + 1) * Scale > particles[j].ttl

\* C8: update() resets the particle in the same call exactly when, after the
\* move and the age increment, y exceeds surfaceHeight + 20 or the age exceeds
\* ttl, whatever the age in the first case; otherwise it leaves ttl, colour,
\* alpha, spin, size and vy as they were.
C8_ResetTriggers ==
    [][frames' = frames + 1
         => \A i \in DOMAIN particles :
              LET p == particles[i]
                  q == particles'[i]
                  tooLow == p.y + p.vy > (H + 20) * Scale
                  tooOld == (p.life + 1) * Scale > p.ttl
              IN  /\ (tooLow \/ tooOld) <=> q.life = 0
                  /\ ~(tooLow \/ tooOld)
                       => /\ q.life = p.life + 1
                          /\ q.y = p.y + p.vy
                          /\ q.ttl = p.ttl /\ q.color = p.color
                          /\ q.alpha = p.alpha /\ q.spin = p.spin
                          /\ q.size = p.size /\ q.vy = p.vy]_vars

\* one particle is about to pass the lower bound well within its ttl, and a
\* reset has already happened in this flight
C8_Witness ==
    /\ \E i \in DOMAIN particles :
          /\ particles[i].y + particles[i].vy > (H + 20) * Scale
          /\ (particles[i].life + 1) * Scale <= particles[i].ttl
    /\ \E j \in DOMAIN particles : particles[j].life < frames /\ particles[j].life > 0
    /\ RenderRequests # {}

\* C11: between handlers and callbacks the loop's handle is present exactly
\* when a frame request of the render loop is pending: with the handle present
\* there is one such request, the one the handle names; with the handle absent
\* there is none.
C11_HandleIffRequestPending ==
    /\ rafId # Null
         => /\ Cardinality(RenderRequests) = 1
            /\ \A r \in RenderRequests : r.h = rafId
    /\ rafId = Null => RenderRequests = {}

\* the loop has run and was stopped by the toggle while a burst's frame request
\* is pending: the handle is absent and the queue is not empty
C11_Witness ==
    /\ ~prefersReduced /\ ~checked
    /\ frames >= 1
    /\ rafId = Null
    /\ BurstRequests # {}

\* C12: the tab becoming hidden stops the loop: its pending frame request is
\* cancelled and the handle becomes absent.  The tab becoming visible starts
\* the loop (one render, one frame request, the handle present) if and only if
\* the loop is not running, the toggle is checked and reduced motion is not
\* preferred; otherwise it leaves the handle and the queue as they were.
C12_VisibilityStopsAndStarts ==
    [][/\ (~hidden /\ hidden')
            => /\ rafId' = Null
               /\ RenderRequests' = {}
               /\ BurstRequests' = BurstRequests
       /\ (hidden /\ ~hidden')
            => IF rafId = Null /\ checked /\ ~prefersReduced
               THEN /\ rafId' # Null
                    /\ RenderRequests' = {[h |-> rafId', kind |-> "render", slot |-> 0]}
                    /\ frames' = frames + 1
               ELSE /\ rafId' = rafId
                    /\ rafQueue' = rafQueue
                    /\ frames' = frames]_vars

\* the loop was stopped by hiding the tab with the toggle checked, a burst's
\* frame request is still pending: making the tab visible will start the loop
C12_Witness ==
    /\ hidden /\ checked /\ ~prefersReduced
    /\ rafId = Null /\ RenderRequests = {}
    /\ BurstRequests # {}
    /\ frames >= 1 /\ frames < MaxLoopFrames

\* C13: while the loop is stopped (no handle held, after the toggle was unchecked
\* or the tab hidden), a step that is not a start (the toggle becoming checked,
\* or the tab becoming visible with the toggle checked) executes no render tick
\* and updates no particle (the pool stays as it is or is created anew by a
\* resize): the cancelled frame request never fires.
C13_NoTickWhileStopped ==
    [][(/\ rafId = Null
        /\ ~(~checked /\ checked')
        /\ ~(hidden /\ ~hidden' /\ checked))
          => /\ frames' # frames + 1
             /\ \/ particles' = particles
                \/ \A i \in DOMAIN particles' : particles'[i].life = 0
             /\ RenderRequests' = {}]_vars

\* the loop has run, was stopped and stays stopped while the tab is shown again
\* with the toggle unchecked and a burst ticks
C13_Witness ==
    /\ ~prefersReduced /\ ~checked /\ ~hidden
    /\ rafId = Null /\ RenderRequests = {}
    /\ frames >= 1
    /\ \E s \in LiveSlots : bursts[s].t > 0

\* C14: a resize creates the particle field anew (a fresh pool, nothing painted
\* on the reset surface) and leaves the loop's handle and pending frame request
\* as they were, and every burst's elapsed time and pending frame request too.
C14_ResizeKeepsRunState ==
    [][(particles' # particles /\ frames' = 0 /\ surface' = {})
          => /\ \A i \in DOMAIN particles' : particles'[i].life = 0
             /\ rafId' = rafId
             /\ RenderRequests' = RenderRequests
             /\ BurstRequests' = BurstRequests
             /\ bursts' = bursts]_vars

\* right after a resize: the pool is new, the surface blank, the loop holds its
\* request and a burst is half way through
C14_Witness ==
    /\ frames = 0 /\ surface = {}
    /\ rafId # Null /\ RenderRequests # {}
    /\ \E s \in LiveSlots : bursts[s].t > 0

\* C15: at every tick of every burst the elapsed time is at most the duration
\* 420, so that progress = elapsed / duration lies in [0, 1] and the alpha of
\* the inner colour stop, 0.35 * (1 - progress), is not negative.
C15_ElapsedWithinDuration ==
    \A s \in DOMAIN bursts :
        /\ 0 <= bursts[s].t /\ bursts[s].t <= 420
        /\ BurstAlpha(bursts[s].t) >= 0

\* C16: burst chains are independent of the render loop and of each other.  A
\* stop of the loop (toggle unchecked, tab hidden) cancels the loop's request
\* only and leaves every burst and its frame request as they were; a tick of
\* one burst leaves the loop's request and every other burst as they were; and
\* with every pending frame callback eventually run, every spawned burst, also
\* one spawned while the loop is stopped, comes to its end, whatever other
\* bursts, loop ticks, stops, starts and resizes are interleaved.
C16_BurstsRunToCompletion ==
    /\ [][((checked /\ ~checked') \/ (~hidden /\ hidden'))
            => /\ RenderRequests' = {}
               /\ BurstRequests' = BurstRequests
               /\ bursts' = bursts]_vars
    /\ [][\A s \in ChainSlots :
            BurstTickOf(s)
                => /\ RenderRequests' = RenderRequests
                   /\ rafId' = rafId
                   /\ \A u \in DOMAIN bursts : u # s => bursts'[u] = bursts[u]
                   /\ \A r \in BurstRequests : r.slot # s => r \in BurstRequests']_vars
    /\ \A s \in ChainSlots :
          (s \in LiveSlots)
              ~> (s \notin LiveSlots /\ s \in DOMAIN bursts /\ bursts[s].t >= DURATION)

\* the loop is stopped and two bursts are in flight, both ticked since they
\* were spawned, one further along than the other
C16_Witness ==
    /\ rafId = Null /\ RenderRequests = {}
    /\ \E s, u \in LiveSlots :
          /\ bursts[s].t > bursts[u].t
          /\ bursts[u].t > 0

\* C17: under the reduced-motion preference no sequence of events makes
\* render() execute: no frame is counted and the particles are never drawn.
C17_ReducedMotionNeverRenders ==
    prefersReduced => (frames = 0 /\ "particles" \notin surface)

\* C18: whatever the toggle's state at load, in every reachable state with a
\* frame request of the render loop pending the motion toggle is checked.
C18_LoopRunsOnlyWhenChecked ==
    RenderRequests # {} => checked

\* C19: once the toggle has been unchecked (the loop stopped, the surface
\* cleared), the surface stays blank for as long as the toggle stays unchecked,
\* whatever happens meanwhile: key activations, ticks of bursts, palette
\* changes, visibility changes.
C19_BlankWhileToggleOff ==
    [][(~checked /\ rafId = Null /\ surface = {} /\ ~checked')
          => surface' = {}]_vars

\* C20: between ticks and handlers every particle of the pool has age <= ttl
\* and y <= surfaceHeight + 20, after any sequence of updates, resets and
\* resizes, a resize to a lower surface included.
C20_ParticlesWithinBounds ==
    \A i \in DOMAIN particles :
        /\ particles[i].life * Scale <= particles[i].ttl
        /\ particles[i].y <= (H + 20) * Scale

\* on the low surface reached by a resize from the tall one (the pool size is
\* the tall one's), in flight: one particle has been reset since the resize and
\* another is about to pass the lower bound
C20_Witness ==
    /\ PARTICLE_COUNT > 20
    /\ Len(particles) > Max(20, Round(W * H, 70000))
    /\ \E i \in DOMAIN particles : particles[i].life < frames
    /\ \E j \in DOMAIN particles :
          /\ particles[j].y + particles[j].vy > (H + 20) * Scale
          /\ (particles[j].life + 1) * Scale <= particles[j].ttl

====
